---- MODULE Spec2Model ----
(***************************************************************************)
(* Travel itinerary / budget server (src/app.py, src/app_old.py).          *)
(*                                                                         *)
(* Strings are sequences of one-character strings, so that str.replace,    *)
(* str.split and str.join are modelled by what they do.                    *)
(***************************************************************************)
EXTENDS Integers, Sequences, FiniteSets, TLC

VARIABLES
    \* process_response (pure function, applied to a completion text)
    rawText,      \* the completion text handed to process_response
    entries,      \* its return value, a sequence of <<dayLabel, description>>
    reparsed,     \* process_response applied to the text rebuilt from entries
    ppc,          \* "raw" | "parsed" | "reparsed"
    \* predict_budget (one request)
    method,       \* request.method: "GET" | "POST"
    form,         \* request.form.get: field name -> text, None for an absent field
    input_data,   \* <<row>>, the feature row the request built, <<>> if it built none
    predictCalls, \* rows passed to budget_model.predict by the request
    budgetResp,   \* what the request returned
    \* chat, clear_chat (requests handled by the server's threads)
    store,        \* the filesystem session store: session id -> saved session
    wpc,          \* per thread: "idle" or the handler it is in
    wsid,         \* per thread: the session id of its request
    wmsg,         \* per thread: request.form['message']
    wsession,     \* per thread: the session object loaded for its request
    wmodified,    \* per thread: session.modified
    wresp,        \* per thread: the response it sent last
    \* what the clients of a session have seen
    posted,       \* per session: the turns posted since the last clear
    seen          \* per session: what its clear and the reads after it showed

parseVars == <<rawText, entries, reparsed, ppc>>
budgetVars == <<method, form, input_data, predictCalls, budgetResp>>
chatVars == <<store, wpc, wsid, wmsg, wsession, wmodified, wresp>>
seenVars == <<posted, seen>>

vars == <<parseVars, budgetVars, chatVars, seenVars>>

\* Python's None, where a text (a sequence of characters) is expected
None == <<"None">>

(***************************************************************************)
(* Python string primitives                                                *)
(***************************************************************************)
NL == "\n"
DAY == <<"D", "a", "y">>
DOT == <<".">>

\* s[i:] (1-based i)
From(s, i) == SubSeq(s, i, Len(s))

\* sep occurs in s at index i
OccursAt(s, sep, i) ==
    /\ i >= 1
    /\ i + Len(sep) - 1 <= Len(s)
    /\ SubSeq(s, i, i + Len(sep) - 1) = sep

\* str.find from index i: the first index >= i where sep occurs, 0 if none
RECURSIVE find(_, _, _)
find(s, sep, i) ==
    IF i + Len(sep) - 1 > Len(s) THEN 0
    ELSE IF OccursAt(s, sep, i) THEN i
    ELSE find(s, sep, i + 1)

\* str.split(sep): left-to-right, non-overlapping; always at least one part
RECURSIVE split(_, _)
split(s, sep) ==
    LET i == find(s, sep, 1) IN
    IF i = 0 THEN <<s>>
    ELSE <<SubSeq(s, 1, i - 1)>> \o split(From(s, i + Len(sep)), sep)

\* str.replace(old, new): left-to-right, non-overlapping
RECURSIVE replace(_, _, _)
replace(s, old, new) ==
    LET i == find(s, old, 1) IN
    IF i = 0 THEN s
    ELSE SubSeq(s, 1, i - 1) \o new \o replace(From(s, i + Len(old)), old, new)

\* sep.join(parts)
RECURSIVE join(_, _)
join(sep, parts) ==
    IF parts = <<>> THEN <<>>
    ELSE IF Len(parts) = 1 THEN parts[1]
    ELSE parts[1] \o sep \o join(sep, Tail(parts))

(***************************************************************************)
(* process_response                                                        *)
(***************************************************************************)
\* response.replace('\n', '')
NormalizeKeepNewlines(response) == response
Normalize(response) == replace(response, <<NL>>, <<>>)

\* [1:] on the list of 'Day' segments
DropPreambleKeepAll(segments) == segments
DropPreamble(segments) == Tail(segments)

\* item.split('.')[0]
DayLabel(item) == split(item, DOT)[1]

\* '.'.join(item.split('.')[1:])
DescriptionFromSecond(item) ==
    LET parts == split(item, DOT) IN
    IF Len(parts) <= 2 THEN <<>> ELSE join(DOT, Tail(Tail(parts)))
Description(item) == join(DOT, Tail(split(item, DOT)))

process_response(response) ==
    LET segments == DropPreamble(split(Normalize(response), DAY)) IN
    [k \in 1..Len(segments) |-> <<DayLabel(segments[k]), Description(segments[k])>>]

(***************************************************************************)
(* Completion texts the parser is applied to: concatenations of at most    *)
(* MaxPieces pieces.                                                       *)
(***************************************************************************)
MaxPieces == 4

Pieces ==
    { <<"D", "a", "y", " ", "1", ":", " ", "a", ".">>,     \* "Day 1: a."
      <<"D", "a", "y", "2", ":", "b">>,                   \* "Day2:b"
      DAY,
      <<"D", "a">>,
      <<"y">>,
      <<NL>>,
      DOT,
      <<" ", "c">> }

RECURSIVE Flatten(_)
Flatten(ps) == IF ps = <<>> THEN <<>> ELSE ps[1] \o Flatten(Tail(ps))

Texts == { Flatten(ps) : ps \in UNION { [1..n -> Pieces] : n \in 0..MaxPieces } }

\* the text rebuilt from the entries: "Day" + dayLabel + "." + description, in order
RECURSIVE Rebuild(_)
Rebuild(es) ==
    IF es = <<>> THEN <<>>
    ELSE DAY \o es[1][1] \o DOT \o es[1][2] \o Rebuild(Tail(es))


(***************************************************************************)
(* predict_budget                                                          *)
(***************************************************************************)
TextFields ==
    {"destination", "accommodation_type", "activity_preference", "dining_preference"}

\* the coerced fields, in the order the handler coerces them
NumericOrder ==
    <<"trip_duration", "accommodation_cost", "activity_cost", "dining_cost",
      "transportation_cost", "flight_cost", "seasonality_factor">>

NumericFields == { NumericOrder[i] : i \in DOMAIN NumericOrder }

Fields == TextFields \cup NumericFields

\* the DataFrame column each form field is stored under
Column(f) ==
    CASE f = "destination"         -> "Destination"
      [] f = "trip_duration"       -> "Trip Duration (Days)"
      [] f = "accommodation_type"  -> "Accommodation Type"
      [] f = "accommodation_cost"  -> "Accommodation Cost (per day)"
      [] f = "activity_preference" -> "Activity Preference"
      [] f = "activity_cost"       -> "Activity Cost (per day)"
      [] f = "dining_preference"   -> "Dining Preference"
      [] f = "dining_cost"         -> "Dining Cost (per day)"
      [] f = "transportation_cost" -> "Transportation Cost"
      [] f = "flight_cost"         -> "Flight Cost"
      [] f = "seasonality_factor"  -> "Seasonality Factor"

Columns == { Column(f) : f \in Fields }

\* str.strip() of the surrounding blanks
RECURSIVE strip(_)
strip(s) ==
    IF s # <<>> /\ s[1] = " " THEN strip(Tail(s))
    ELSE IF s # <<>> /\ s[Len(s)] = " " THEN strip(SubSeq(s, 1, Len(s) - 1))
    ELSE s

\* an optional sign in front of s: <<sign, rest>>
Signed(s) ==
    IF s # <<>> /\ s[1] \in {"+", "-"}
    THEN <<(IF s[1] = "-" THEN -1 ELSE 1), Tail(s)>>
    ELSE <<1, s>>

DigitValue(c) ==
    CASE c = "0" -> 0 [] c = "1" -> 1 [] c = "2" -> 2 [] c = "3" -> 3 [] c = "4" -> 4
      [] c = "5" -> 5 [] c = "6" -> 6 [] c = "7" -> 7 [] c = "8" -> 8 [] c = "9" -> 9

IsDigit(c) == c \in {"0", "1", "2", "3", "4", "5", "6", "7", "8", "9"}

\* the number a digit string denotes
RECURSIVE Decimal(_)
Decimal(ds) ==
    IF ds = <<>> THEN 0
    ELSE 10 * Decimal(SubSeq(ds, 1, Len(ds) - 1)) + DigitValue(ds[Len(ds)])

Raised(exc, arg) == [ok |-> FALSE, exc |-> exc, arg |-> arg]
Returned(val) == [ok |-> TRUE, val |-> val]

\* int(v): TypeError on None, ValueError unless v is blanks, an optional sign and
\* digits (the digit-group "_" of Python literals is outside the texts used here)
int(v) ==
    IF v = None THEN Raised("TypeError", None)
    ELSE LET sg == Signed(strip(v)) IN
         IF sg[2] # <<>> /\ \A i \in 1..Len(sg[2]) : IsDigit(sg[2][i])
         THEN Returned(sg[1] * Decimal(sg[2]))
         ELSE Raised("ValueError", v)

\* float(v): TypeError on None, ValueError unless v is blanks, an optional sign and
\* digits with at most one "." among them (exponents, "inf" and "nan" are outside
\* the texts used here). The value is <<sign, whole part, fraction digits>>.
float(v) ==
    IF v = None THEN Raised("TypeError", None)
    ELSE LET sg   == Signed(strip(v))
             body == sg[2]
             dot  == find(body, <<".">>, 1)
             whole == IF dot = 0 THEN body ELSE SubSeq(body, 1, dot - 1)
             frac  == IF dot = 0 THEN <<>> ELSE SubSeq(body, dot + 1, Len(body))
         IN  IF /\ Len(whole) + Len(frac) > 0
                /\ \A i \in 1..Len(whole) : IsDigit(whole[i])
                /\ \A i \in 1..Len(frac) : IsDigit(frac[i])
             THEN Returned(<<sg[1], Decimal(whole), frac>>)
             ELSE Raised("ValueError", v)

\* the coercion the handler applies to form field f
CoerceAllAsFloat(f, v) == float(v)
Coerce(f, v) == IF f = "trip_duration" THEN int(v) ELSE float(v)

\* str(e) of the exception a coercion or the model raised
str(e) == <<e.exc, e.arg>>

\* the texts a form field is given: absent (request.form.get returns None), "3",
\* "3.5", "abc", "" and " 4"
FieldTexts ==
    { None, <<"3">>, <<"3", ".", "5">>, <<"a", "b", "c">>, <<>>, <<" ", "4">> }

\* a form every field of which is present and coercible
ValidForm ==
    [f \in Fields |->
        IF f \in TextFields THEN <<"a", "b", "c">>
        ELSE IF f = "trip_duration" THEN <<"3">>
        ELSE <<"3", ".", "5">>]

\* forms that differ from ValidForm in at most MaxChanged fields
MaxChanged == 2

Forms ==
    { [f \in Fields |-> IF f \in DOMAIN d THEN d[f] ELSE ValidForm[f]] :
        d \in UNION { [D -> FieldTexts] :
                        D \in { X \in SUBSET Fields : Cardinality(X) <= MaxChanged } } }

\* what budget_model.predict does with a row: a budget, or an exception
PredictOutcomes ==
    { Returned(1200), Returned(0), Raised("PredictionError", "row") }

(***************************************************************************)
(* chat and clear_chat (src/app.py): sessions kept in a filesystem store   *)
(* (SESSION_TYPE = 'filesystem'), one request per server thread.  A        *)
(* request loads its session from the store when it starts and writes it   *)
(* back, if modified, when its response is made; nothing orders two        *)
(* requests that carry the same session id.                                *)
(*                                                                         *)
(* A session is <<>> (no 'chat_history' key) or <<history>>.               *)
(***************************************************************************)
Sessions == {"s1", "s2"}
Threads == {"t1", "t2"}
Messages == {<<"hi">>}
Contents == {<<"ok">>}                     \* completion texts
Failures == {Raised("Timeout", <<"timed out">>)}   \* completion service errors

\* posts per session between two clears
MaxTurns == 2

NoMessage == <<>>
NoSession == <<>>
NoSid == "none"

\* seen[s]: "none" until a clear of s runs with no other request of s in
\* flight; then "cleared", with the history length the clear printed before
\* clearing and the length it rendered; then "read" once GET /chat answered,
\* with the length that read rendered; "none" again when a post of s starts
NotCleared == [phase |-> "none", before |-> 0, len |-> 0]

PostsInFlight == { t \in Threads : wpc[t] = "chat_POST" }

RECURSIVE TotalPosted(_)
TotalPosted(S) ==
    IF S = {} THEN 0
    ELSE LET s == CHOOSE x \in S : TRUE IN Len(posted[s]) + TotalPosted(S \ {s})

HistoryOf(session) == IF session = NoSession THEN <<>> ELSE session[1]

\* bot_response = f"Error: {str(e)}"
ErrorReply(e) == <<"Error: ">> \o e.arg

Turn(user_message, bot_response) == [user |-> user_message, bot |-> bot_response]

InFlight(s) == { t \in Threads : wpc[t] # "idle" /\ wsid[t] = s }

\* save_session: an empty modified session is deleted from the store, any
\* other modified session is written to it
Save(t, session, modified) ==
    IF modified THEN [store EXCEPT ![wsid[t]] = session] ELSE store

\* chat(), up to the call of the completion service: the session is loaded and
\* 'chat_history' is set to [] if absent
chat_begin(t, s, m, msg) ==
    /\ wpc[t] = "idle"
    /\ m = "POST" => /\ TotalPosted(Sessions) + Cardinality(PostsInFlight) < MaxTurns
                     /\ Len(HistoryOf(store[s])) < MaxTurns
    /\ wpc' = [wpc EXCEPT ![t] = IF m = "POST" THEN "chat_POST" ELSE "chat_GET"]
    /\ wsid' = [wsid EXCEPT ![t] = s]
    /\ wmsg' = [wmsg EXCEPT ![t] = msg]
    /\ wsession' = [wsession EXCEPT ![t] =
                      IF store[s] = NoSession THEN <<<<>>>> ELSE store[s]]
    /\ wmodified' = [wmodified EXCEPT ![t] = (store[s] = NoSession)]
    /\ seen' = IF m = "POST" THEN [seen EXCEPT ![s] = NotCleared] ELSE seen
    /\ UNCHANGED <<store, wresp, posted, parseVars, budgetVars>>

\* the turn chat() appends for an outcome of the completion call
NewTurn(t, outcome) ==
    <<Turn(wmsg[t], IF outcome.ok THEN outcome.val ELSE ErrorReply(outcome))>>

\* chat(), POST: the completion call returns or raises, the turn is appended,
\* the session is saved and the history rendered
chat_POST(t, outcome) ==
    LET history == HistoryOf(wsession[t]) \o NewTurn(t, outcome) IN
    /\ wpc[t] = "chat_POST"
    /\ store' = Save(t, <<history>>, TRUE)
    /\ wresp' = [wresp EXCEPT ![t] = [status |-> 200, page |-> "chat.html"]]
    /\ posted' = [posted EXCEPT ![wsid[t]] = @ \o NewTurn(t, outcome)]
    /\ wpc' = [wpc EXCEPT ![t] = "idle"]
    /\ wsid' = [wsid EXCEPT ![t] = NoSid]
    /\ wsession' = [wsession EXCEPT ![t] = NoSession]
    /\ wmsg' = [wmsg EXCEPT ![t] = NoMessage]
    /\ wmodified' = [wmodified EXCEPT ![t] = FALSE]
    /\ UNCHANGED <<seen, parseVars, budgetVars>>

\* chat(), GET: the history is rendered
chat_GET(t) ==
    /\ wpc[t] = "chat_GET"
    /\ store' = Save(t, wsession[t], wmodified[t])
    /\ wresp' = [wresp EXCEPT ![t] = [status |-> 200, page |-> "chat.html"]]
    /\ seen' = [seen EXCEPT ![wsid[t]] =
                  IF @.phase = "none" THEN @
                  ELSE [@ EXCEPT !.phase = "read",
                                 !.len = Len(HistoryOf(wsession[t]))]]
    /\ wpc' = [wpc EXCEPT ![t] = "idle"]
    /\ wsid' = [wsid EXCEPT ![t] = NoSid]
    /\ wsession' = [wsession EXCEPT ![t] = NoSession]
    /\ wmodified' = [wmodified EXCEPT ![t] = FALSE]
    /\ UNCHANGED <<wmsg, posted, parseVars, budgetVars>>

\* clear_chat(): the session is loaded
clear_begin(t, s) ==
    /\ wpc[t] = "idle"
    /\ wpc' = [wpc EXCEPT ![t] = "clear_chat"]
    /\ wsid' = [wsid EXCEPT ![t] = s]
    /\ wsession' = [wsession EXCEPT ![t] = store[s]]
    /\ wmodified' = [wmodified EXCEPT ![t] = FALSE]
    /\ UNCHANGED <<store, wmsg, wresp, seenVars, parseVars, budgetVars>>

\* session.pop('chat_history') if the key is there
PopKeep(session) == session
Pop(session) == NoSession

\* clear_chat(): 'chat_history' is popped, session.modified set, [] rendered
clear_chat(t) ==
    LET s == wsid[t]
        alone == InFlight(s) = {t}
    IN
    /\ wpc[t] = "clear_chat"
    /\ store' = Save(t, Pop(wsession[t]), TRUE)
    /\ wresp' = [wresp EXCEPT ![t] = [status |-> 200, page |-> "chat.html"]]
    /\ posted' = [posted EXCEPT ![s] = <<>>]
    /\ seen' = [seen EXCEPT ![s] =
                  IF alone
                  THEN [phase |-> "cleared",
                        before |-> Len(HistoryOf(wsession[t])),
                        len |-> Len(<<>>)]
                  ELSE NotCleared]
    /\ wpc' = [wpc EXCEPT ![t] = "idle"]
    /\ wsid' = [wsid EXCEPT ![t] = NoSid]
    /\ wsession' = [wsession EXCEPT ![t] = NoSession]
    /\ wmodified' = [wmodified EXCEPT ![t] = FALSE]
    /\ UNCHANGED <<wmsg, parseVars, budgetVars>>

(***************************************************************************)
(* chat (src/app_old.py): no session, no history, no handler around the    *)
(* completion call.                                                        *)
(***************************************************************************)
\* user_message = request.form.get("message"), None if the field is absent
old_chat_begin(t, msg) ==
    /\ wpc[t] = "idle"
    /\ wpc' = [wpc EXCEPT ![t] = "old_chat_POST"]
    /\ wmsg' = [wmsg EXCEPT ![t] = msg]
    /\ UNCHANGED <<store, wsid, wsession, wmodified, wresp, seenVars, parseVars, budgetVars>>

\* the completion call returns, or raises and the exception leaves the handler
old_chat_POST(t, outcome) ==
    /\ wpc[t] = "old_chat_POST"
    /\ wresp' = [wresp EXCEPT ![t] =
                   IF outcome.ok
                   THEN [status |-> 200, page |-> "chat.html",
                         user_message |-> wmsg[t], bot_response |-> outcome.val]
                   ELSE [status |-> 500, exception |-> outcome, user_message |-> wmsg[t]]]
    /\ wpc' = [wpc EXCEPT ![t] = "idle"]
    /\ wmsg' = [wmsg EXCEPT ![t] = NoMessage]
    /\ UNCHANGED <<store, wsid, wsession, wmodified, seenVars, parseVars, budgetVars>>

old_chat_GET(t) ==
    /\ wpc[t] = "idle"
    /\ wresp' = [wresp EXCEPT ![t] = [status |-> 200, page |-> "chat.html"]]
    /\ UNCHANGED <<store, wpc, wsid, wmsg, wsession, wmodified, seenVars, parseVars, budgetVars>>

(***************************************************************************)
(* Specifications                                                          *)
(***************************************************************************)
ParseIdle ==
    /\ entries = <<>>
    /\ reparsed = <<>>
    /\ ppc = "raw"

BudgetIdle ==
    /\ input_data = <<>>
    /\ predictCalls = <<>>
    /\ budgetResp = [kind |-> "pending"]

ChatIdle ==
    /\ store = [s \in Sessions |-> NoSession]
    /\ wpc = [t \in Threads |-> "idle"]
    /\ wsid = [t \in Threads |-> NoSid]
    /\ wmsg = [t \in Threads |-> NoMessage]
    /\ wsession = [t \in Threads |-> NoSession]
    /\ wmodified = [t \in Threads |-> FALSE]
    /\ wresp = [t \in Threads |-> [status |-> 0]]
    /\ posted = [s \in Sessions |-> <<>>]
    /\ seen = [s \in Sessions |-> NotCleared]

NoForm == [f \in Fields |-> None]

InitParse ==
    /\ rawText \in Texts
    /\ ParseIdle
    /\ method = "GET"
    /\ form = NoForm
    /\ BudgetIdle
    /\ ChatIdle

\* submit(): response = process_response(response)
ProcessResponse ==
    /\ ppc = "raw"
    /\ entries' = process_response(rawText)
    /\ ppc' = "parsed"
    /\ UNCHANGED <<rawText, reparsed, budgetVars, chatVars, seenVars>>

\* process_response applied to the text rebuilt from its own output
Reparse ==
    /\ ppc = "parsed"
    /\ reparsed' = process_response(Rebuild(entries))
    /\ ppc' = "reparsed"
    /\ UNCHANGED <<rawText, entries, budgetVars, chatVars, seenVars>>

NextParse == ProcessResponse \/ Reparse

SpecParse == InitParse /\ [][NextParse]_vars

\* POST /predict_budget
predict_budget_POST(outcome) ==
    LET conv   == [f \in NumericFields |-> Coerce(f, form[f])]
        failed == { i \in DOMAIN NumericOrder : ~conv[NumericOrder[i]].ok }
        row    == [c \in Columns |->
                     LET f == CHOOSE g \in Fields : Column(g) = c IN
                     IF f \in TextFields THEN form[f] ELSE conv[f].val]
    IN  /\ budgetResp.kind = "pending"
        /\ method = "POST"
        /\ IF failed # {}
           THEN \* the first failing coercion raises; except returns str(e)
                LET i == CHOOSE j \in failed : \A k \in failed : j <= k IN
                /\ input_data' = <<>>
                /\ predictCalls' = <<>>
                /\ budgetResp' = [kind |-> "text", body |-> str(conv[NumericOrder[i]])]
           ELSE /\ input_data' = <<row>>
                /\ predictCalls' = <<row>>
                /\ budgetResp' =
                     IF outcome.ok
                     THEN [kind |-> "budget.html", budget |-> outcome.val,
                           echo |-> [f \in Fields |->
                                       IF f \in TextFields THEN form[f] ELSE conv[f].val]]
                     ELSE [kind |-> "text", body |-> str(outcome)]
        /\ UNCHANGED <<method, form, parseVars, chatVars, seenVars>>

\* GET /predict_budget
predict_budget_GET ==
    /\ budgetResp.kind = "pending"
    /\ method = "GET"
    /\ input_data' = <<>>
    /\ predictCalls' = <<>>
    /\ budgetResp' = [kind |-> "budget.html", budget |-> None]
    /\ UNCHANGED <<method, form, parseVars, chatVars, seenVars>>

InitBudget ==
    /\ rawText = <<>>
    /\ ParseIdle
    /\ BudgetIdle
    /\ ChatIdle
    /\ \/ method = "POST" /\ form \in Forms
       \/ method = "GET" /\ form = NoForm

NextBudget ==
    \/ \E outcome \in PredictOutcomes : predict_budget_POST(outcome)
    \/ predict_budget_GET

SpecBudget == InitBudget /\ [][NextBudget]_vars

CompletionOutcomes == { Returned(c) : c \in Contents } \cup Failures

\* src/app.py
Init ==
    /\ rawText = <<>>
    /\ ParseIdle
    /\ method = "GET"
    /\ form = NoForm
    /\ BudgetIdle
    /\ ChatIdle

Next ==
    \/ \E t \in Threads, s \in Sessions : chat_begin(t, s, "GET", NoMessage)
    \/ \E t \in Threads, s \in Sessions, msg \in Messages : chat_begin(t, s, "POST", msg)
    \/ \E t \in Threads, outcome \in CompletionOutcomes : chat_POST(t, outcome)
    \/ \E t \in Threads : chat_GET(t)
    \/ \E t \in Threads, s \in Sessions : clear_begin(t, s)
    \/ \E t \in Threads : clear_chat(t)

Spec == Init /\ [][Next]_vars

\* src/app.py, POST /chat requests only
NextPosts ==
    \/ \E t \in Threads, s \in Sessions, msg \in Messages : chat_begin(t, s, "POST", msg)
    \/ \E t \in Threads, outcome \in CompletionOutcomes : chat_POST(t, outcome)

SpecPosts == Init /\ [][NextPosts]_vars

\* src/app_old.py
NextOld ==
    \/ \E t \in Threads, msg \in Messages \cup {None} : old_chat_begin(t, msg)
    \/ \E t \in Threads, outcome \in CompletionOutcomes : old_chat_POST(t, outcome)
    \/ \E t \in Threads : old_chat_GET(t)

SpecOld == Init /\ [][NextOld]_vars


(***************************************************************************)
(* Reading a text directly, without split/replace/join: where "Day"        *)
(* occurs, and the day block that follows each occurrence.                 *)
(***************************************************************************)
Digits == {"0", "1", "2", "3", "4", "5", "6", "7", "8", "9"}

StripNewlines(s) == SelectSeq(s, LAMBDA c : c # NL)

Contains(s, c) == \E i \in 1..Len(s) : s[i] = c

DayAt(s) == { i \in 1..Len(s) : OccursAt(s, DAY, i) }

DayCount(s) == Cardinality(DayAt(s))

\* index of the k-th occurrence of "Day" in s; Len(s) + 1 past the last one
DayPos(s, k) ==
    IF k > DayCount(s) THEN Len(s) + 1
    ELSE CHOOSE i \in DayAt(s) : Cardinality({ j \in DayAt(s) : j <= i }) = k

\* the text between the k-th "Day" and the next one (or the end)
DayBlock(s, k) == SubSeq(s, DayPos(s, k) + Len(DAY), DayPos(s, k + 1) - 1)

\* index of the first "." of b, 0 if none
FirstDot(b) ==
    IF Contains(b, ".")
    THEN CHOOSE i \in 1..Len(b) : b[i] = "." /\ \A j \in 1..(i - 1) : b[j] # "."
    ELSE 0

\* b reads "<number>: <text>.<narrative>" (the spaces optional)
BlockWellFormed(b) ==
    \E first, colon \in 1..Len(b) :
        /\ first < colon
        /\ first = 1 \/ (first = 2 /\ b[1] = " ")
        /\ \A i \in first..(colon - 1) : b[i] \in Digits
        /\ b[colon] = ":"
        /\ FirstDot(b) > colon

\* every "Day" of s is followed by "<number>: <text>.<narrative>"
WellFormed(s) == \A k \in 1..DayCount(s) : BlockWellFormed(DayBlock(s, k))

Parsed == ppc # "raw"

(***************************************************************************)
(* C1 (as amended): for every text whose newline-free form contains        *)
(* exactly N occurrences of "Day", each followed by                        *)
(* "<number>: <text>.<narrative>", process_response returns exactly N      *)
(* entries, the k-th entry being the k-th day block split at its first     *)
(* ".", and every dayLabel is non-empty.                                   *)
(***************************************************************************)
C1_EntriesFollowBlocks ==
    Parsed =>
        LET n == StripNewlines(rawText) IN
        WellFormed(n) =>
            /\ Len(entries) = DayCount(n)
            /\ \A k \in 1..Len(entries) :
                /\ entries[k][1] \o DOT \o entries[k][2] = DayBlock(n, k)
                /\ ~Contains(entries[k][1], ".")
                /\ entries[k][1] # <<>>

\* two different well-formed day blocks, with a newline between them
C1_Witness ==
    /\ ppc = "parsed"
    /\ Contains(rawText, NL)
    /\ WellFormed(StripNewlines(rawText))
    /\ DayCount(StripNewlines(rawText)) = 2
    /\ Len(entries) = 2
    /\ entries[1] # entries[2]

\* C1 as stated: N counts the occurrences of "Day" in the text as given
C1_Original ==
    Parsed =>
        (WellFormed(rawText) =>
            /\ Len(entries) = DayCount(rawText)
            /\ \A k \in 1..Len(entries) :
                /\ k <= DayCount(rawText) =>
                     entries[k][1] \o DOT \o entries[k][2]
                         = StripNewlines(DayBlock(rawText, k))
                /\ entries[k][1] # <<>>)

(***************************************************************************)
(* C2: for the input "Day " + L + "." + D (L without "." and "Day", D      *)
(* without "Day") process_response returns the single entry <<L, D>>.      *)
(***************************************************************************)
C2_LabelAndDescriptionExact ==
    Parsed =>
        LET rest == From(rawText, Len(DAY) + 2)
            dot  == FirstDot(rest)
            L    == SubSeq(rest, 1, dot - 1)
            D    == From(rest, dot + 1)
        IN  ( /\ OccursAt(rawText, DAY \o <<" ">>, 1)
              /\ dot > 0
              /\ DayAt(L) = {}
              /\ DayAt(D) = {} )
            => entries = << <<L, D>> >>

(***************************************************************************)
(* C3 (as amended): for every text that contains no "Day" once its newline *)
(* characters are removed, process_response returns the empty sequence.    *)
(***************************************************************************)
C3_NoDayNoEntries ==
    (Parsed /\ DayCount(StripNewlines(rawText)) = 0) => entries = <<>>

C3_Witness ==
    /\ ppc = "parsed"
    /\ Contains(rawText, NL)
    /\ Contains(rawText, "D")
    /\ Len(rawText) >= 4
    /\ DayCount(StripNewlines(rawText)) = 0
    /\ entries = <<>>

\* C3 as stated: no "Day" in the text as given, newlines included
C3_Original ==
    (Parsed /\ DayCount(rawText) = 0) => entries = <<>>

(***************************************************************************)
(* C10: parsing the text rebuilt from the entries ("Day" + dayLabel + "."  *)
(* + description, in order) returns the same entries whenever no dayLabel  *)
(* contains "."; and removing the newlines of a newline-free text changes  *)
(* nothing.                                                                *)
(***************************************************************************)
C10_RoundTrip ==
    /\ (ppc = "reparsed" /\ \A k \in 1..Len(entries) : ~Contains(entries[k][1], "."))
          => reparsed = entries
    /\ ~Contains(rawText, NL) => Normalize(rawText) = rawText
    /\ Parsed => Normalize(Rebuild(entries)) = Rebuild(entries)

\* the rebuilt text differs from the parsed one; one entry has a "." in its
\* description and another has no description at all
C10_Witness ==
    /\ ppc = "reparsed"
    /\ Len(entries) >= 2
    /\ reparsed = entries
    /\ Rebuild(entries) # StripNewlines(rawText)
    /\ \E k \in 1..Len(entries) : Contains(entries[k][2], ".")
    /\ \E k \in 1..Len(entries) : entries[k][2] = <<>> /\ entries[k][1] # <<>>

(***************************************************************************)
(* Reading a form directly: which numeric fields hold an integer or a      *)
(* decimal numeral.                                                        *)
(***************************************************************************)
\* v without its blanks and without a leading sign
Trimmed(v) ==
    LET t == SelectSeq(v, LAMBDA c : c # " ") IN
    IF t # <<>> /\ t[1] \in {"+", "-"} THEN Tail(t) ELSE t

IsIntegerText(v) ==
    /\ v # None
    /\ Trimmed(v) # <<>>
    /\ \A i \in 1..Len(Trimmed(v)) : Trimmed(v)[i] \in Digits

IsDecimalText(v) ==
    /\ v # None
    /\ \E i \in 1..Len(Trimmed(v)) : Trimmed(v)[i] \in Digits
    /\ \A i \in 1..Len(Trimmed(v)) : Trimmed(v)[i] \in Digits \cup {"."}
    /\ Cardinality({ i \in 1..Len(Trimmed(v)) : Trimmed(v)[i] = "." }) <= 1

\* numeric field f of the form is missing or not coercible to its type
BadNumeric(fm, f) ==
    IF f = "trip_duration" THEN ~IsIntegerText(fm[f]) ELSE ~IsDecimalText(fm[f])

Responded == budgetResp.kind # "pending"

ValidationFailed ==
    /\ budgetResp.kind = "text"
    /\ budgetResp.body[1] \in {"TypeError", "ValueError"}
    /\ input_data = <<>>
    /\ predictCalls = <<>>

(***************************************************************************)
(* C4: if any of the seven numeric form fields is missing or not coercible *)
(* to its int/float type, the request ends with a validation-failure       *)
(* message, no feature row is built and budget_model.predict is not        *)
(* called.                                                                 *)
(***************************************************************************)
C4_BadNumericFailsFast ==
    (Responded /\ method = "POST" /\ \E f \in NumericFields : BadNumeric(form, f))
        => ValidationFailed

\* exactly one numeric field is bad: trip_duration = "3.5", a number but no int
C4_Witness ==
    /\ Responded
    /\ method = "POST"
    /\ form = [ValidForm EXCEPT !["trip_duration"] = <<"3", ".", "5">>]
    /\ ValidationFailed
    /\ budgetResp.body = <<"ValueError", <<"3", ".", "5">>>>

(***************************************************************************)
(* C9: if any of the eleven form fields is missing or non-coercible, the   *)
(* four text fields included, the operation fails with a single error      *)
(* message and no feature row is produced or passed to predict.            *)
(***************************************************************************)
C9_AnyMissingFieldFails ==
    (Responded /\ method = "POST" /\ ( \/ \E f \in NumericFields : BadNumeric(form, f)
                          \/ \E f \in TextFields : form[f] = None ))
        => ( /\ budgetResp.kind = "text"
             /\ input_data = <<>>
             /\ predictCalls = <<>> )

(***************************************************************************)
(* C5: in the chat pathway a failure of the completion call does not leave *)
(* the request: it becomes a bot reply carrying the error text.  Stated    *)
(* of the responses: no chat request ends as an unhandled failure.         *)
(***************************************************************************)
C5_ChatFailureBecomesReply ==
    \A t \in Threads : wresp[t].status # 500

(***************************************************************************)
(* C6: after a clear of a session that follows its posts (no other request *)
(* of the session is in flight when the clear ends), the clear response    *)
(* shows length 0, the stored history is empty and every read of the       *)
(* history before the next post shows length 0, whatever the length was    *)
(* before the clear.                                                       *)
(***************************************************************************)
C6_ClearLeavesHistoryEmpty ==
    \A s \in Sessions :
        seen[s].phase # "none" =>
            /\ seen[s].len = 0
            /\ HistoryOf(store[s]) = <<>>

\* a clear of a history of two turns, then a read that showed length 0
C6_Witness ==
    \E s \in Sessions :
        /\ seen[s].phase = "read"
        /\ seen[s].before = 2
        /\ seen[s].len = 0
        /\ store[s] = <<<<>>>>

(***************************************************************************)
(* C7: in every reachable state the history of a session equals, in order, *)
(* the turns posted on that session since its last clear.                  *)
(***************************************************************************)
C7_HistoryIsPostedTurns ==
    \A s \in Sessions : HistoryOf(store[s]) = posted[s]

(***************************************************************************)
(* C8: once the requests of a session have completed, its history holds    *)
(* every turn posted since the last clear, also when the posts overlapped: *)
(* no turn is lost or overwritten.                                         *)
(***************************************************************************)
C8_NoTurnLost ==
    \A s \in Sessions :
        InFlight(s) = {} => Len(HistoryOf(store[s])) >= Len(posted[s])

====
